---- MODULE Spec2Model ----
(***************************************************************************)
(* The bounded breadth-first crawlers of what-the-faq:                     *)
(*   scrapeWebsite         scripts/test-scraper.ts                         *)
(*   scrapeWebsiteTask.run trigger/scrape-website.ts (the inline crawl)    *)
(*   scrapeWebsiteLocally  scripts/local-scraper (unnamed/part_002)        *)
(* A URL is a record of the components of its href; a page is the          *)
(* sequence of the href attributes of its anchors, chosen by the           *)
(* environment when the page is rendered.                                  *)
(* With them withRetry and generateFAQTask.run of trigger/generate-faq     *)
(* (unnamed/part_003).                                                     *)
(***************************************************************************)
EXTENDS Integers, Sequences, FiniteSets, TLC

\* ------------------------------------------------------------------ bounds
MaxPagesBound == 2      \* maxPages is drawn from 1..MaxPagesBound
MaxLinks == 2           \* anchors per rendered page
MaxAttemptsBound == 3   \* maxAttempts is drawn from 0..MaxAttemptsBound
MaxFaqs == 2            \* records in a response of the generation model

\* ------------------------------------------------------------------- URLs
Url(s, h, p, e, q, f) ==
  [scheme |-> s, host |-> h, path |-> p, ext |-> e, query |-> q, frag |-> f]

SeedHost == "example.com"
SeedUrl == Url("https", SeedHost, "/", "", "", "")

\* An href attribute no URL parser accepts (new URL throws on it).
InvalidHref == Url("invalid", "", "", "", "", "")

\* The anchors a page of the modelled site may carry, as every crawl reads
\* them. A scheme of "" is a path-absolute relative reference, resolved
\* against the page.
SiteLinks ==
  { Url("", "", "/a", "", "", ""),
    Url("https", SeedHost, "/b", "", "", ""),
    Url("https", SeedHost, "/a", "", "", "s1"),
    Url("", "", "/a", "", "", "s2"),
    Url("https", SeedHost, "/f", "pdf", "", ""),
    Url("", "", "/f", "PDF", "", ""),
    Url("https", "other.com", "/page", "", "", ""),
    Url("https", "other.com", "/page", "", "ref=example.com", "") }

\* An attribute value that only getAttribute('href') hands to the crawl as it
\* is written: one that no URL parser accepts.
RawOnlyLinks == { InvalidHref }

\* The ten same-site pages of the ten-link scenario.
TenPaths == <<"/p1", "/p2", "/p3", "/p4", "/p5", "/p6", "/p7", "/p8", "/p9", "/p10">>
TenLinks == [i \in 1..10 |-> Url("https", SeedHost, TenPaths[i], "", "", "")]

\* Substring facts about the texts above: <<text, part>> when text contains
\* part without being equal to it.
SubstringTable ==
  { <<"ref=example.com", "example.com">>,
    <<"/a", "/">>, <<"/b", "/">>, <<"/f", "/">>, <<"/page", "/">> }
\* <<text, part>> when text starts with part without being equal to it.
PrefixTable ==
  { <<"/a", "/">>, <<"/b", "/">>, <<"/f", "/">>, <<"/page", "/">> }

TextIncludes(text, part) == text = part \/ <<text, part>> \in SubstringTable
TextStartsWith(text, part) == text = part \/ <<text, part>> \in PrefixTable

ToLowerCase(e) ==
  CASE e = "PDF" -> "pdf"
    [] OTHER -> e

FileExtensions == {"pdf", "jpg", "jpeg", "png", "gif", "mp4", "zip", "rar"}

\* new URL(link, base): a relative reference takes the base's scheme and host.
Resolve(link, base) ==
  IF link.scheme = "" THEN [link EXCEPT !.scheme = base.scheme, !.host = base.host]
  ELSE link

\* new URL(link, base) throws.
ResolveThrows(link) == link.scheme = "invalid"

\* URL.hostname
Hostname(u) == u.host

\* href.includes('#')
IncludesHashBroken(u) == FALSE
IncludesHash(u) == u.frag # ""

\* href.startsWith('http')
StartsWithHttp(u) == u.scheme = "https"

\* href.includes(domain): the domain occurs anywhere in the href text.
HrefIncludes(u, domain) ==
  \/ TextIncludes(u.host, domain)
  \/ TextIncludes(u.path, domain)
  \/ TextIncludes(u.query, domain)
  \/ TextIncludes(u.frag, domain)

\* The last piece of the href text: <<delimiter, text>>.
HrefTail(u) ==
  IF u.frag # "" THEN <<"#", u.frag>>
  ELSE IF u.query # "" THEN <<"?", u.query>>
  ELSE IF u.ext # "" THEN <<".", u.ext>>
  ELSE <<"/", u.path>>

\* href.match(/\.(pdf|jpg|jpeg|png|gif|mp4|zip|rar)$/i)
MatchesFileExtCaseSensitive(u) ==
  HrefTail(u)[1] = "." /\ HrefTail(u)[2] \in FileExtensions
MatchesFileExt(u) ==
  HrefTail(u)[1] = "." /\ ToLowerCase(HrefTail(u)[2]) \in FileExtensions

\* URL.pathname
Pathname(u) == u.path

\* ------------------------------------------------------- sequences and sets
SeqHas(s, x) == \E i \in 1..Len(s) : s[i] = x

\* A JavaScript Set in insertion order.
SetHasNever(s, x) == FALSE
SetHas(s, x) == SeqHas(s, x)
SetAddNever(s, x) == s
SetAdd(s, x) == IF SetHas(s, x) THEN s ELSE Append(s, x)

NoDuplicates(s) == \A i, j \in 1..Len(s) : s[i] = s[j] => i = j

RECURSIVE Dedupe(_)
\* Array.from(new Set(s)): first occurrences, in order.
Dedupe(s) ==
  IF s = <<>> THEN <<>>
  ELSE LET r == Dedupe(SubSeq(s, 1, Len(s) - 1))
       IN SetAdd(r, s[Len(s)])

\* Array.shift / Array.push
ShiftKeepsHead(q) == q
Shift(q) == Tail(q)
PushFront(q, es) == es \o q
PushReversed(q, es) == q \o [i \in 1..Len(es) |-> es[Len(es) + 1 - i]]
Push(q, es) == q \o es

\* const visited = new Set<string>(): every call starts with its own set.
ReusedVisited(old) == old
NewVisited(old) == <<>>

\* ---------------------------------------------------------------- variables
VARIABLES
  impl,          \* which crawl runs
  startUrl,      \* the seed
  maxPages,
  pathPrefixes,  \* scrapeWebsiteLocally only
  excludePaths,  \* scrapeWebsiteLocally only
  siteOwner,     \* scrapeWebsiteTask only
  apiKey,        \* process.env.BROWSERBASE_API_KEY is set
  site,          \* what each URL serves, where the site is held fixed
  pc,            \* position in the crawl
  browser,       \* "none", "open", "closed"
  visited,       \* Set<string>, in insertion order
  queue,         \* queue / toVisit
  results,       \* results / pages
  currentUrl,    \* the entry dequeued last
  depth,         \* its depth (scrapeWebsite)
  page,          \* the anchors of the loaded document, until they are read
  links,         \* the links extracted from the current page
  closes,        \* calls of browser.close
  progress,      \* the arguments onProgress was called with, in order
  ret,           \* what the crawl returned or raised
  discovery,     \* scrapeWebsite: the URLs in the order of their first push
  handles,       \* pages opened by browser.newPage and not closed by page.close
  runs,          \* the result URLs of the calls that returned before this one
  errorCategory, \* withRetry: its arguments
  maxAttempts,
  delayMs,
  attempt,       \* withRetry: the loop counter
  lastError,
  retryPc,       \* position in withRetry
  log,           \* the invocations and the sleeps of withRetry, in order
  retryRet,      \* what withRetry returned or raised
  payload,       \* generateFAQTask: its argument
  faqPc,         \* position in generateFAQTask.run
  response,      \* result.text, once generateText has resolved
  generated,     \* the invocations of generateText, in order
  caught,        \* the error bound by the catch block of run
  faqRet         \* what run returned or raised

inputs == <<impl, startUrl, maxPages, pathPrefixes, excludePaths, siteOwner,
            apiKey, site>>
crawlVars == <<pc, browser, visited, queue, results, currentUrl, depth, page,
               links, closes, progress, ret, discovery, handles>>
retryVars == <<errorCategory, maxAttempts, delayMs, attempt, lastError,
               retryPc, log, retryRet>>
faqVars == <<payload, faqPc, response, generated, caught, faqRet>>
\* What no step of a crawl changes.
fixed == <<inputs, runs, retryVars, faqVars>>
vars == <<inputs, crawlVars, runs, retryVars, faqVars>>

Impls == {"scrapeWebsite", "scrapeWebsiteTask", "scrapeWebsiteLocally"}
HasDepth == impl = "scrapeWebsite"

\* A frontier entry: {url, depth} in scrapeWebsite, the URL alone elsewhere.
Entry(u, d) == IF HasDepth THEN [url |-> u, depth |-> d] ELSE [url |-> u]

SeqsUpTo(S, n) == UNION {[1..k -> S] : k \in 0..n}

\* The documents the environment may serve: every anchor list up to MaxLinks.
\* scrapeWebsite reads the raw attributes, the other crawls the a.href values.
RawPages == SeqsUpTo(SiteLinks \cup RawOnlyLinks, MaxLinks)
HrefPages == SeqsUpTo(SiteLinks, MaxLinks)
Pages == IF impl = "scrapeWebsite" THEN RawPages ELSE HrefPages

\* content.length of the page a URL serves: the text of the modelled site is
\* fixed, its links are not.
ContentLength(u) ==
  CASE u.path = "/" -> 3
    [] u.path = "/a" -> 0
    [] u.path = "/b" -> 2
    [] OTHER -> 1

\* ------------------------------------------------------------ scope filters
\* scrapeWebsite: the condition under which a resolved link is queued.
LinkAcceptedAnyVisit(absoluteUrl, cur, vis) ==
  /\ Hostname(absoluteUrl) = Hostname(cur)
  /\ ~IncludesHash(absoluteUrl)
  /\ ~MatchesFileExt(absoluteUrl)
LinkAccepted(absoluteUrl, cur, vis) ==
  /\ Hostname(absoluteUrl) = Hostname(cur)
  /\ ~SetHas(vis, absoluteUrl)
  /\ ~IncludesHash(absoluteUrl)
  /\ ~MatchesFileExt(absoluteUrl)

RECURSIVE NewEntries(_, _, _, _)
\* scrapeWebsite: the entries the link loop pushes, in order; a link that
\* does not parse is caught and skipped.
NewEntries(ls, cur, d, vis) ==
  IF ls = <<>> THEN <<>>
  ELSE LET link == Head(ls)
           rest == NewEntries(Tail(ls), cur, d, vis)
       IN IF ResolveThrows(link) THEN rest
          ELSE IF LinkAccepted(Resolve(link, cur), cur, vis)
               THEN <<[url |-> Resolve(link, cur), depth |-> d + 1]>> \o rest
               ELSE rest

\* a.href: the anchor's href resolved by the browser against the document.
AnchorHref(a, location) == IF ResolveThrows(a) THEN a ELSE Resolve(a, location)

\* scrapeWebsiteTask / scrapeWebsiteLocally: the in-page filter of a.href.
HrefKept(href, domain) ==
  /\ HrefIncludes(href, domain)
  /\ StartsWithHttp(href)
  /\ ~IncludesHash(href)
  /\ ~MatchesFileExt(href)

RECURSIVE KeptHrefs(_, _)
KeptHrefs(as, location) ==
  IF as = <<>> THEN <<>>
  ELSE (IF HrefKept(AnchorHref(Head(as), location), Hostname(location))
        THEN <<AnchorHref(Head(as), location)>> ELSE <<>>)
       \o KeptHrefs(Tail(as), location)

\* pageData.links: Array.from(new Set(links))
PageDataLinks(as, location) == Dedupe(KeptHrefs(as, location))

RECURSIVE NotVisited(_, _)
\* pageData.links.filter(link => !visited.has(link)), as toVisit entries
NotVisited(ls, vis) ==
  IF ls = <<>> THEN <<>>
  ELSE (IF SetHas(vis, Head(ls)) THEN <<>> ELSE <<[url |-> Head(ls)]>>)
       \o NotVisited(Tail(ls), vis)

\* scrapeWebsiteLocally: the path filters applied to a dequeued URL.
PathSkippedNever(u, prefixes, excludes) == FALSE
PathSkipped(u, prefixes, excludes) ==
  \/ /\ Len(prefixes) > 0
     /\ ~(\E i \in 1..Len(prefixes) : TextStartsWith(Pathname(u), prefixes[i]))
  \/ \E i \in 1..Len(excludes) : TextIncludes(Pathname(u), excludes[i])

\* The links the crawl extracts from the loaded document.
ExtractLinks(as, location) ==
  IF impl = "scrapeWebsite" THEN as ELSE PageDataLinks(as, location)

\* The entries appended to the frontier for the extracted links.
Discovered(ls, cur, d, vis) ==
  IF impl = "scrapeWebsite" THEN NewEntries(ls, cur, d, vis) ELSE NotVisited(ls, vis)

\* while (queue.length > 0 && results.length < maxPages)
LoopCondOffByOne(q, r, m) == Len(q) > 0 /\ Len(r) <= m
LoopCondNoBudget(q, r, m) == Len(q) > 0
LoopCond(q, r, m) == Len(q) > 0 /\ Len(r) < m

\* Where control goes after the catch block of a failed page.
AfterPageErrorRethrow == "failed"
AfterPageError == "close"

\* Where onProgress is awaited: scrapeWebsite calls it right after
\* results.push, scrapeWebsiteLocally after toVisit.push, and the inline
\* crawl of the task has no callback.
AfterPush(i) == IF i = "scrapeWebsite" THEN "progress" ELSE "links"
AfterLinks(i) == IF i = "scrapeWebsiteLocally" THEN "progress" ELSE "close"
AfterProgress(i) == IF i = "scrapeWebsite" THEN "links" ELSE "close"

\* onProgress(results.length)
ProgressArgStale(r) == Len(r) - 1
ProgressArg(r) == Len(r)

\* const page = await browser.newPage(), and await page.close()
Opened(h) == h + 1
ClosedLeaks(h) == h
Closed(h) == h - 1
\* scrapeWebsiteTask and scrapeWebsiteLocally open their one page before the
\* loop, scrapeWebsite opens one for every URL it processes.
PagesAtStart(i) == IF i = "scrapeWebsite" THEN 0 ELSE Opened(0)

\* finally { await browser.close() }, and in the task: if (browser) ...
FinallyBrowserLeak(b) == b
FinallyBrowser(b) == IF b = "open" THEN "closed" ELSE b
FinallyCloses(b, n) == IF b = "open" THEN n + 1 ELSE n

\* ----------------------------------------------------------- return values
\* A JavaScript number: an integer or NaN.
Num(n) == [nan |-> FALSE, val |-> n]
NaN == [nan |-> TRUE, val |-> 0]

RECURSIVE TotalContent(_)
\* results.reduce((acc, page) => acc + page.content.length, 0)
TotalContent(rs) ==
  IF rs = <<>> THEN 0 ELSE rs[1].content + TotalContent(Tail(rs))

\* Math.round(a / b) for a >= 0 and b >= 0: 0 / 0 is NaN, and Math.round
\* keeps NaN; a quotient is rounded half up.
MathRound(a, b) ==
  IF b = 0 THEN NaN ELSE Num((2 * a + b) \div (2 * b))

\* stats of scrapeWebsiteTask
Stats(rs) ==
  [totalPages |-> Num(Len(rs)),
   totalContent |-> Num(TotalContent(rs)),
   averageContentLength |-> MathRound(TotalContent(rs), Len(rs))]

MissingKeyMessage == "BROWSERBASE_API_KEY environment variable is required"
ConnectMessage == "the browser could not be reached"
NewPageMessage == "the page could not be opened"
PageCloseMessage == "the page could not be closed"

NoReturn == [kind |-> "none"]

\* The crawl returns its pages: the task wraps them with the stats.
Returned(rs) ==
  IF impl = "scrapeWebsiteTask"
  THEN [kind |-> "returned", success |-> TRUE, pages |-> rs, stats |-> Stats(rs)]
  ELSE [kind |-> "returned", value |-> rs]

\* A fatal error leaves the crawl: the task catches it and returns
\* {success: false, error}, the functions let it propagate.
Failed(message) ==
  IF impl = "scrapeWebsiteTask"
  THEN [kind |-> "returned", success |-> FALSE, error |-> message]
  ELSE [kind |-> "raised", error |-> message]

\* The credential is read: by scrapeWebsite always, by the task for a site
\* that is not owned, by the local crawl never.
NeedsApiKeyAlways == TRUE
NeedsApiKey ==
  \/ impl = "scrapeWebsite"
  \/ impl = "scrapeWebsiteTask" /\ ~siteOwner

RECURSIVE AddAll(_, _)
\* The first pushes of URLs, in order.
AddAll(s, es) ==
  IF es = <<>> THEN s ELSE AddAll(SetAdd(s, Head(es).url), Tail(es))
\* The order of discovery is kept for scrapeWebsite, the crawl whose frontier
\* carries depths.
Discover(d, es) == IF HasDepth THEN AddAll(d, es) ELSE d

\* The page budgets a crawl is started with: the task's schema asks for at
\* least 1, the functions take any number.
MaxPagesOf(i) == IF i = "scrapeWebsiteTask" THEN 1..MaxPagesBound ELSE 0..MaxPagesBound

\* The pathPrefixes and excludePaths a local crawl is started with.
\* (Without rules the local crawl takes the steps of scrapeWebsiteTask.)
PathRules == { <<<<"/a">>, <<>>>>, <<<<"/">>, <<"/b">>>> }

\* siteOwner and the presence of the credential, as <<siteOwner, apiKey>>.
\* scrapeWebsite and scrapeWebsiteLocally have no siteOwner, and the local
\* crawl reads no credential.
Credentials(i) ==
  CASE i = "scrapeWebsite" -> {<<FALSE, TRUE>>, <<FALSE, FALSE>>}
    [] i = "scrapeWebsiteTask" -> BOOLEAN \X BOOLEAN
    [] OTHER -> {<<FALSE, FALSE>>}

\* withRetry is not running.
IdleRetry ==
  /\ errorCategory = "transient"
  /\ maxAttempts = 0
  /\ delayMs = 0
  /\ attempt = 0
  /\ lastError = [cls |-> "undefined"]
  /\ retryPc = "idle"
  /\ log = <<>>
  /\ retryRet = NoReturn

\* generateFAQTask is not running.
IdleFaq ==
  /\ payload = [pages |-> <<>>, options |-> [minConfidence |-> 7]]
  /\ faqPc = "idle"
  /\ response = [cls |-> "undefined"]
  /\ generated = <<>>
  /\ caught = [cls |-> "undefined"]
  /\ faqRet = NoReturn

\* The locals of a crawl at its entry.
Entered ==
  /\ pc = "init"
  /\ browser = "none"
  /\ visited = <<>>
  /\ queue = <<>>
  /\ results = <<>>
  /\ currentUrl = startUrl
  /\ depth = 0
  /\ page = <<>>
  /\ links = <<>>
  /\ closes = 0
  /\ progress = <<>>
  /\ ret = NoReturn
  /\ discovery = <<>>
  /\ handles = 0

\* ------------------------------------------------------------------ actions
Init ==
  /\ impl \in Impls
  /\ startUrl = SeedUrl
  /\ maxPages \in MaxPagesOf(impl)
  /\ \E rules \in (IF impl = "scrapeWebsiteLocally" THEN PathRules ELSE {<<<<>>, <<>>>>}) :
       /\ pathPrefixes = rules[1]
       /\ excludePaths = rules[2]
  /\ \E c \in Credentials(impl) :
       /\ siteOwner = c[1]
       /\ apiKey = c[2]
  /\ site = <<>>
  /\ runs = <<>>
  /\ Entered
  /\ IdleRetry
  /\ IdleFaq

\* The credential is required and missing: the crawl fails before it connects.
MissingApiKey ==
  /\ pc = "init"
  /\ NeedsApiKey /\ ~apiKey
  /\ ret' = Failed(MissingKeyMessage)
  /\ pc' = "failed"
  /\ UNCHANGED <<fixed, handles, browser, visited, queue, results, currentUrl, depth,
                 page, links, closes, progress, discovery>>

\* The rendering session is acquired and the seed is queued.
Connect ==
  /\ pc = "init"
  /\ NeedsApiKey => apiKey
  /\ browser' = "open"
  /\ queue' = Push(queue, <<Entry(startUrl, 0)>>)
  /\ discovery' = Discover(discovery, <<Entry(startUrl, 0)>>)
  /\ pc' = "loop"
  /\ handles' = PagesAtStart(impl)
  /\ UNCHANGED <<fixed, visited, results, currentUrl, depth, page, links,
                 closes, progress, ret>>

\* The session cannot be acquired: the crawl fails before its loop.
ConnectFail ==
  /\ pc = "init"
  /\ NeedsApiKey => apiKey
  /\ ret' = Failed(ConnectMessage)
  /\ pc' = "failed"
  /\ UNCHANGED <<fixed, handles, browser, visited, queue, results, currentUrl, depth,
                 page, links, closes, progress, discovery>>

\* scrapeWebsiteTask and scrapeWebsiteLocally open their one page before the
\* loop: the session is acquired, the seed is queued, browser.newPage or
\* page.setViewport rejects (without a page, or with the page open), and the
\* finally block closes the session.
FirstPageFail ==
  /\ pc = "init"
  /\ impl # "scrapeWebsite"
  /\ NeedsApiKey => apiKey
  /\ queue' = Push(queue, <<Entry(startUrl, 0)>>)
  /\ discovery' = Discover(discovery, <<Entry(startUrl, 0)>>)
  /\ browser' = FinallyBrowser("open")
  /\ closes' = FinallyCloses("open", closes)
  /\ ret' = Failed(NewPageMessage)
  /\ pc' = "failed"
  /\ handles' \in {0, Opened(0)}
  /\ UNCHANGED <<fixed, visited, results, currentUrl, depth, page, links, progress>>

\* The loop condition holds: const {url, depth} = queue.shift().
Dequeue ==
  /\ pc = "loop"
  /\ LoopCond(queue, results, maxPages)
  /\ queue' = Shift(queue)
  /\ currentUrl' = Head(queue).url
  /\ depth' = IF HasDepth THEN Head(queue).depth ELSE depth
  /\ pc' = "dequeued"
  /\ UNCHANGED <<fixed, handles, browser, visited, results, page, links, closes,
                 progress, ret, discovery>>

\* if (visited.has(currentUrl)) continue
SkipVisited ==
  /\ pc = "dequeued"
  /\ SetHas(visited, currentUrl)
  /\ pc' = "loop"
  /\ UNCHANGED <<fixed, handles, browser, visited, queue, results, currentUrl, depth,
                 page, links, closes, progress, ret, discovery>>

\* scrapeWebsiteLocally: the URL fails the path filters: continue.
SkipOutOfPath ==
  /\ pc = "dequeued"
  /\ impl = "scrapeWebsiteLocally"
  /\ ~SetHas(visited, currentUrl)
  /\ PathSkipped(currentUrl, pathPrefixes, excludePaths)
  /\ pc' = "loop"
  /\ UNCHANGED <<fixed, handles, browser, visited, queue, results, currentUrl, depth,
                 page, links, closes, progress, ret, discovery>>

\* The URL is processed. scrapeWebsite marks it visited before rendering.
StartPage ==
  /\ pc = "dequeued"
  /\ ~SetHas(visited, currentUrl)
  /\ impl = "scrapeWebsiteLocally" => ~PathSkipped(currentUrl, pathPrefixes, excludePaths)
  /\ visited' = IF impl = "scrapeWebsite" THEN SetAdd(visited, currentUrl) ELSE visited
  /\ pc' = "goto"
  /\ handles' = IF impl = "scrapeWebsite" THEN Opened(handles) ELSE handles
  /\ UNCHANGED <<fixed, browser, queue, results, currentUrl, depth, page,
                 links, closes, progress, ret, discovery>>

\* scrapeWebsite: browser.newPage rejects, outside the try of the page. The
\* outer catch rethrows and the finally block closes the session.
NewPageFail ==
  /\ pc = "dequeued"
  /\ impl = "scrapeWebsite"
  /\ ~SetHas(visited, currentUrl)
  /\ visited' = SetAdd(visited, currentUrl)
  /\ browser' = FinallyBrowser(browser)
  /\ closes' = FinallyCloses(browser, closes)
  /\ ret' = Failed(NewPageMessage)
  /\ pc' = "failed"
  /\ UNCHANGED <<fixed, handles, queue, results, currentUrl, depth, page, links,
                 progress, discovery>>

\* page.goto rejects (navigation error, timeout).
GotoFail ==
  /\ pc = "goto"
  /\ pc' = "catch"
  /\ UNCHANGED <<fixed, handles, browser, visited, queue, results, currentUrl, depth,
                 page, links, closes, progress, ret, discovery>>

\* page.goto resolves: the document is loaded. The task and the local crawl
\* mark the URL visited here.
GotoOk(anchors) ==
  /\ pc = "goto"
  /\ page' = anchors
  /\ visited' = IF impl = "scrapeWebsite" THEN visited ELSE SetAdd(visited, currentUrl)
  /\ pc' = "extract"
  /\ UNCHANGED <<fixed, handles, browser, queue, results, currentUrl, depth, links,
                 closes, progress, ret, discovery>>

\* An in-page evaluation rejects: the document is not read.
ExtractFail ==
  /\ pc = "extract"
  /\ page' = <<>>
  /\ pc' = "catch"
  /\ UNCHANGED <<fixed, handles, browser, visited, queue, results, currentUrl, depth,
                 links, closes, progress, ret, discovery>>

\* The evaluations resolve: the document has been read, and the page is
\* pushed to the results.
ExtractOk ==
  /\ pc = "extract"
  /\ links' = ExtractLinks(page, currentUrl)
  /\ page' = <<>>
  /\ results' = Append(results, [url |-> currentUrl,
                                 content |-> ContentLength(currentUrl)])
  /\ pc' = AfterPush(impl)
  /\ UNCHANGED <<fixed, handles, browser, visited, queue, currentUrl, depth, closes,
                 progress, ret, discovery>>

\* await onProgress(results.length) resolves.
OnProgress ==
  /\ pc = "progress"
  /\ progress' = Append(progress, ProgressArg(results))
  /\ pc' = AfterProgress(impl)
  /\ UNCHANGED <<fixed, handles, browser, visited, queue, results, currentUrl, depth,
                 page, links, closes, ret, discovery>>

\* onProgress is called and its promise rejects: the catch of the page takes
\* over, and the links, local to the try block, are gone.
OnProgressFail ==
  /\ pc = "progress"
  /\ progress' = Append(progress, ProgressArg(results))
  /\ links' = <<>>
  /\ pc' = "catch"
  /\ UNCHANGED <<fixed, handles, browser, visited, queue, results, currentUrl, depth,
                 page, closes, ret, discovery>>

\* The discovered links are pushed to the back of the frontier.
EnqueueLinks ==
  /\ pc = "links"
  /\ queue' = Push(queue, Discovered(links, currentUrl, depth, visited))
  /\ discovery' = Discover(discovery, Discovered(links, currentUrl, depth, visited))
  /\ pc' = AfterLinks(impl)
  /\ UNCHANGED <<fixed, handles, browser, visited, results, currentUrl, depth, page,
                 links, closes, progress, ret>>

\* The catch block of the page: the error is logged.
CatchPageError ==
  /\ pc = "catch"
  /\ pc' = AfterPageError
  /\ UNCHANGED <<fixed, handles, browser, visited, queue, results, currentUrl, depth,
                 page, links, closes, progress, ret, discovery>>

\* The iteration ends; the document and its links are not read again.
EndIteration ==
  /\ pc = "close"
  /\ page' = <<>>
  /\ links' = <<>>
  /\ pc' = "loop"
  /\ handles' = IF impl = "scrapeWebsite" THEN Closed(handles) ELSE handles
  /\ UNCHANGED <<fixed, browser, visited, queue, results, currentUrl, depth,
                 closes, progress, ret, discovery>>

\* scrapeWebsite: await page.close() rejects at the end of the iteration, and
\* the page is closed or is not. The outer catch rethrows and the finally
\* block closes the session.
PageCloseFail ==
  /\ pc = "close"
  /\ impl = "scrapeWebsite"
  /\ page' = <<>>
  /\ links' = <<>>
  /\ browser' = FinallyBrowser(browser)
  /\ closes' = FinallyCloses(browser, closes)
  /\ ret' = Failed(PageCloseMessage)
  /\ pc' = "failed"
  /\ handles' \in {handles, Closed(handles)}
  /\ UNCHANGED <<fixed, visited, queue, results, currentUrl, depth, progress,
                 discovery>>

\* The loop condition is false: the results are returned and the finally
\* block closes the session.
Finish ==
  /\ pc = "loop"
  /\ ~LoopCond(queue, results, maxPages)
  /\ browser' = FinallyBrowser(browser)
  /\ closes' = FinallyCloses(browser, closes)
  /\ ret' = Returned(results)
  /\ pc' = "done"
  /\ UNCHANGED <<fixed, handles, visited, queue, results, currentUrl, depth, page,
                 links, progress, discovery>>

Next ==
  \/ MissingApiKey
  \/ Connect
  \/ ConnectFail
  \/ FirstPageFail
  \/ Dequeue
  \/ SkipVisited
  \/ SkipOutOfPath
  \/ StartPage
  \/ NewPageFail
  \/ GotoFail
  \/ \E anchors \in Pages : GotoOk(anchors)
  \/ ExtractFail
  \/ ExtractOk
  \/ OnProgress
  \/ OnProgressFail
  \/ EnqueueLinks
  \/ CatchPageError
  \/ EndIteration
  \/ PageCloseFail
  \/ Finish

Spec == Init /\ [][Next]_vars

\* The event loop runs every continuation that is ready.
FairSpec == Spec /\ WF_vars(Next)

\* --------------------------------------------------- the ten-link scenario
\* The seed page carries ten distinct same-site links; one of them may be the
\* seed itself. Every other page carries at most one link of the site.
TenSeedDocs ==
  {TenLinks} \cup {[TenLinks EXCEPT ![k] = SeedUrl] : k \in 1..10}
TenOtherDocs == SeqsUpTo({TenLinks[i] : i \in 1..10} \cup {SeedUrl}, 1)
TenDocs == IF currentUrl = startUrl THEN TenSeedDocs ELSE TenOtherDocs

InitTen ==
  /\ impl \in Impls
  /\ startUrl = SeedUrl
  /\ maxPages = 3
  /\ pathPrefixes = <<>>
  /\ excludePaths = <<>>
  /\ siteOwner = FALSE
  /\ apiKey = TRUE
  /\ site = <<>>
  /\ runs = <<>>
  /\ Entered
  /\ IdleRetry
  /\ IdleFaq

\* Every page renders: no step fails.
NextTen ==
  \/ Connect
  \/ Dequeue
  \/ StartPage
  \/ \E anchors \in TenDocs : GotoOk(anchors)
  \/ ExtractOk
  \/ OnProgress
  \/ EnqueueLinks
  \/ EndIteration
  \/ Finish

SpecTen == InitTen /\ [][NextTen]_vars

\* ------------------------------------------------- the breadth-first order
\* scrapeWebsite alone keeps depths; one more page than MaxPagesBound lets an
\* entry of depth 2 be dequeued.
InitBfs ==
  /\ impl = "scrapeWebsite"
  /\ startUrl = SeedUrl
  /\ maxPages \in 0..(MaxPagesBound + 1)
  /\ pathPrefixes = <<>>
  /\ excludePaths = <<>>
  /\ siteOwner = FALSE
  /\ apiKey \in BOOLEAN
  /\ site = <<>>
  /\ runs = <<>>
  /\ Entered
  /\ IdleRetry
  /\ IdleFaq

NextBfs ==
  \/ MissingApiKey
  \/ Connect
  \/ ConnectFail
  \/ Dequeue
  \/ SkipVisited
  \/ StartPage
  \/ NewPageFail
  \/ GotoFail
  \/ \E anchors \in Pages : GotoOk(anchors)
  \/ ExtractFail
  \/ ExtractOk
  \/ OnProgress
  \/ OnProgressFail
  \/ EnqueueLinks
  \/ CatchPageError
  \/ EndIteration
  \/ PageCloseFail
  \/ Finish

SpecBfs == InitBfs /\ [][NextBfs]_vars

\* ------------------------------------------------ two calls on one site
\* The site is held fixed: every URL serves the same outcome whenever it is
\* rendered, and scrapeWebsite is called a second time when it has returned.
TwoLinks ==
  { Url("", "", "/a", "", "", ""),
    Url("https", SeedHost, "/b", "", "", "") }
TwoUrls == {SeedUrl} \cup {Resolve(l, SeedUrl) : l \in TwoLinks}
Outcomes ==
  {[kind |-> "gotoFail", doc |-> <<>>], [kind |-> "extractFail", doc |-> <<>>]}
    \cup {[kind |-> "ok", doc |-> d] : d \in SeqsUpTo(TwoLinks, MaxLinks)}

InitTwo ==
  /\ impl = "scrapeWebsite"
  /\ startUrl = SeedUrl
  /\ maxPages \in 0..MaxPagesBound
  /\ pathPrefixes = <<>>
  /\ excludePaths = <<>>
  /\ siteOwner = FALSE
  /\ apiKey = TRUE
  /\ site \in [TwoUrls -> Outcomes]
  /\ runs = <<>>
  /\ Entered
  /\ IdleRetry
  /\ IdleFaq

GotoFailSite == site[currentUrl].kind = "gotoFail" /\ GotoFail
GotoOkSite == site[currentUrl].kind # "gotoFail" /\ GotoOk(site[currentUrl].doc)
ExtractFailSite == site[currentUrl].kind = "extractFail" /\ ExtractFail
ExtractOkSite == site[currentUrl].kind = "ok" /\ ExtractOk

\* The function has returned and is called again with the same arguments:
\* its locals are created anew.
CallAgain ==
  /\ pc = "done"
  /\ runs = <<>>
  /\ runs' = Append(runs, [i \in 1..Len(results) |-> results[i].url])
  /\ pc' = "init"
  /\ browser' = "none"
  /\ visited' = NewVisited(visited)
  /\ queue' = <<>>
  /\ results' = <<>>
  /\ currentUrl' = startUrl
  /\ depth' = 0
  /\ page' = <<>>
  /\ links' = <<>>
  /\ closes' = 0
  /\ progress' = <<>>
  /\ ret' = NoReturn
  /\ discovery' = <<>>
  /\ handles' = 0
  /\ UNCHANGED <<inputs, retryVars, faqVars>>

NextTwo ==
  \/ Connect
  \/ Dequeue
  \/ SkipVisited
  \/ StartPage
  \/ GotoFailSite
  \/ GotoOkSite
  \/ ExtractFailSite
  \/ ExtractOkSite
  \/ OnProgress
  \/ EnqueueLinks
  \/ CatchPageError
  \/ EndIteration
  \/ Finish
  \/ CallAgain

SpecTwo == InitTwo /\ [][NextTwo]_vars

\* ------------------------------------------------ depths on a fixed site
\* Five pages of one site, each serving a fixed outcome, crawled once by
\* scrapeWebsite with a callback that may reject.
DepthLink(n) == Url("", "", TenPaths[n], "", "", "")
DepthUrl(n) == Resolve(DepthLink(n), SeedUrl)
DepthUrls == {SeedUrl} \cup {DepthUrl(n) : n \in 1..4}
Ok(doc) == [kind |-> "ok", doc |-> doc]
DepthSites ==
  { [u \in DepthUrls |->
       CASE u = SeedUrl -> Ok(<<DepthLink(1), DepthLink(2)>>)
         [] u = DepthUrl(1) -> o1
         [] u = DepthUrl(2) -> o2
         [] u = DepthUrl(3) -> o3
         [] OTHER -> o4] :
      o1 \in {Ok(<<>>), Ok(<<DepthLink(3)>>), [kind |-> "gotoFail", doc |-> <<>>]},
      o2 \in {Ok(<<DepthLink(4)>>), Ok(<<DepthLink(3)>>), Ok(<<DepthLink(1)>>)},
      o3 \in {Ok(<<>>), Ok(<<DepthLink(4)>>)},
      o4 \in {Ok(<<DepthLink(3)>>), Ok(<<>>), [kind |-> "extractFail", doc |-> <<>>]} }

InitDepth ==
  /\ impl = "scrapeWebsite"
  /\ startUrl = SeedUrl
  /\ maxPages \in 1..(MaxPagesBound + 3)
  /\ pathPrefixes = <<>>
  /\ excludePaths = <<>>
  /\ siteOwner = FALSE
  /\ apiKey = TRUE
  /\ site \in DepthSites
  /\ runs = <<>>
  /\ Entered
  /\ IdleRetry
  /\ IdleFaq

NextDepth ==
  \/ Connect
  \/ Dequeue
  \/ SkipVisited
  \/ StartPage
  \/ GotoFailSite
  \/ GotoOkSite
  \/ ExtractFailSite
  \/ ExtractOkSite
  \/ OnProgress
  \/ OnProgressFail
  \/ EnqueueLinks
  \/ CatchPageError
  \/ EndIteration
  \/ Finish

SpecDepth == InitDepth /\ [][NextDepth]_vars

\* -------------------------------------------------------------- withRetry
\* maxAttempts: number = 3, delayMs: number = 1000
DefaultMaxAttempts == 3
DefaultDelayMs == 1000

\* enum ErrorCategory
ErrorCategories == {"transient", "permanent", "validation"}

\* What an invocation of the operation throws: an error of one of the two
\* classes that carry a category, an Error without one, or the AbortError of
\* an operation that was cancelled while it ran.
ErrorValues ==
  { [cls |-> "FAQGenerationError", category |-> "transient"],
    [cls |-> "FAQGenerationError", category |-> "permanent"],
    [cls |-> "FAQGenerationError", category |-> "validation"],
    [cls |-> "DatabaseError", category |-> "permanent"],
    [cls |-> "Error", category |-> "none"],
    [cls |-> "AbortError", category |-> "none"] }

\* The error as thrown by invocation k: two throws are never the same object.
Thrown(e, k) == [cls |-> e.cls, category |-> e.category, at |-> k]
Undefined == [cls |-> "undefined"]

\* Math.random() * 1000: the least value and one just below the bound.
JitterValues == {0, 999}
\* The base delays withRetry is called with: the default and a shorter one.
DelayValues == {DefaultDelayMs, 250}

\* lastError = error as Error
CaughtFirst(last, error) == IF last = Undefined THEN error ELSE last
Caught(last, error) == error

\* attempt <= maxAttempts
AttemptsLeft(a, m) == a <= m
\* if (attempt === maxAttempts) break
LastAttemptNever(a, m) == FALSE
LastAttempt(a, m) == a = m

\* error instanceof FAQGenerationError || error instanceof DatabaseError, and
\* error.category === ErrorCategory.PERMANENT: throw error
RethrownNever(error) == FALSE
Rethrown(error) ==
  /\ error.cls \in {"FAQGenerationError", "DatabaseError"}
  /\ error.category = "permanent"

\* delayMs * Math.pow(2, attempt - 1)
BackoffConstant(d, a) == d
Backoff(d, a) == d * 2 ^ (a - 1)
\* const delay = delayMs * Math.pow(2, attempt - 1) + jitter
Delay(d, a, jitter) == Backoff(d, a) + jitter

\* return await operation(): where control is after the value is returned.
AfterSuccessRetries == "backoff"
AfterSuccess == "done"

\* No crawl runs while withRetry is exercised.
IdleCrawl ==
  /\ impl = "none"
  /\ startUrl = SeedUrl
  /\ maxPages = 0
  /\ pathPrefixes = <<>>
  /\ excludePaths = <<>>
  /\ siteOwner = FALSE
  /\ apiKey = FALSE
  /\ site = <<>>
  /\ runs = <<>>
  /\ pc = "idle"
  /\ browser = "none"
  /\ visited = <<>>
  /\ queue = <<>>
  /\ results = <<>>
  /\ currentUrl = startUrl
  /\ depth = 0
  /\ page = <<>>
  /\ links = <<>>
  /\ closes = 0
  /\ progress = <<>>
  /\ ret = NoReturn
  /\ discovery = <<>>
  /\ handles = 0

\* withRetry is entered: let lastError; attempt = 1.
InitRetry ==
  /\ IdleCrawl
  /\ IdleFaq
  /\ errorCategory \in ErrorCategories
  /\ maxAttempts \in 0..MaxAttemptsBound
  /\ delayMs \in DelayValues
  /\ attempt = 1
  /\ lastError = Undefined
  /\ retryPc = "loop"
  /\ log = <<>>
  /\ retryRet = NoReturn

\* The operation is invoked and resolves: return await operation().
OperationSucceeds ==
  /\ retryPc = "loop"
  /\ AttemptsLeft(attempt, maxAttempts)
  /\ log' = Append(log, [ev |-> "call", at |-> attempt, ok |-> TRUE])
  /\ retryRet' = [kind |-> "returned", value |-> attempt]
  /\ retryPc' = AfterSuccess
  /\ UNCHANGED <<inputs, crawlVars, runs, faqVars, errorCategory, maxAttempts, delayMs,
                 attempt, lastError>>

\* The operation is invoked and rejects: the catch block keeps the error,
\* rethrows a permanent one, and leaves the loop after the last attempt.
OperationFails(e) ==
  /\ retryPc = "loop"
  /\ AttemptsLeft(attempt, maxAttempts)
  /\ log' = Append(log, [ev |-> "call", at |-> attempt, ok |-> FALSE,
                         error |-> Thrown(e, attempt)])
  /\ lastError' = Caught(lastError, Thrown(e, attempt))
  /\ IF Rethrown(Thrown(e, attempt))
     THEN /\ retryRet' = [kind |-> "raised", error |-> Thrown(e, attempt)]
          /\ retryPc' = "done"
     ELSE /\ retryRet' = retryRet
          /\ retryPc' = IF LastAttempt(attempt, maxAttempts) THEN "break"
                                                            ELSE "backoff"
  /\ UNCHANGED <<inputs, crawlVars, runs, faqVars, errorCategory, maxAttempts, delayMs,
                 attempt>>

\* The delay is computed and slept, and the next iteration begins.
Sleep(jitter) ==
  /\ retryPc = "backoff"
  /\ log' = Append(log, [ev |-> "sleep", at |-> attempt, jitter |-> jitter,
                         delay |-> Delay(delayMs, attempt, jitter)])
  /\ attempt' = attempt + 1
  /\ retryPc' = "loop"
  /\ UNCHANGED <<inputs, crawlVars, runs, faqVars, errorCategory, maxAttempts, delayMs,
                 lastError, retryRet>>

\* The loop is left without a return: throw lastError.
ThrowLastError ==
  /\ \/ retryPc = "break"
     \/ retryPc = "loop" /\ ~AttemptsLeft(attempt, maxAttempts)
  /\ retryRet' = [kind |-> "raised", error |-> lastError]
  /\ retryPc' = "done"
  /\ UNCHANGED <<inputs, crawlVars, runs, faqVars, errorCategory, maxAttempts, delayMs,
                 attempt, lastError, log>>

NextRetry ==
  \/ OperationSucceeds
  \/ \E e \in ErrorValues : OperationFails(e)
  \/ \E jitter \in JitterValues : Sleep(jitter)
  \/ ThrowLastError

SpecRetry == InitRetry /\ [][NextRetry]_vars

\* -------------------------------------------------------- generateFAQTask
\* estimateTokens(text, charsPerToken = 4)
CharsPerToken == 4
\* question: z.string().min(10).max(200)
MinQuestion == 10
MaxQuestion == 200
\* minConfidence: z.number().min(0).max(1).default(0.7), in tenths
DefaultMinConfidence == 7

\* A page of the payload, by the lengths of its title, url and content.
PageInputs ==
  { [title |-> 4, url |-> 20, content |-> 0],
    [title |-> 7, url |-> 21, content |-> 400] }

\* The thresholds a caller passes in options, in tenths.
MinConfidences == {3, DefaultMinConfidence}

Payloads ==
  { [pages |-> ps, options |-> [minConfidence |-> c]] :
      ps \in SeqsUpTo(PageInputs, MaxPagesBound), c \in MinConfidences }

\* A record of the response: the length of its question and its confidence
\* in tenths; its other fields conform to FAQSchema.
FaqRecords ==
  { [question |-> q, confidence |-> c] : q \in {5, MinQuestion}, c \in {5, 9} }

\* A text of the generation model: wrapped in a ```json fence or not, JSON
\* or not, and the records its JSON holds.
Texts ==
  { [fenced |-> f, json |-> TRUE, faqs |-> fs] :
      f \in BOOLEAN, fs \in SeqsUpTo(FaqRecords, MaxFaqs) }
  \cup { [fenced |-> f, json |-> FALSE, faqs |-> <<>>] : f \in BOOLEAN }

\* The block the template makes of a page: "\nPage: ", "\nURL: ",
\* "\nContent:\n" and "\n---" around the three texts.
PageBlock(pg) == 7 + pg.title + 6 + pg.url + 10 + pg.content + 4
RECURSIVE BlocksLength(_)
BlocksLength(ps) ==
  IF ps = <<>> THEN 0 ELSE PageBlock(Head(ps)) + BlocksLength(Tail(ps))
\* combinedContent.length: the blocks joined by '\n'
CombinedLength(ps) ==
  BlocksLength(ps) + (IF Len(ps) > 1 THEN Len(ps) - 1 ELSE 0)

\* The length of a record as compact JSON: its keys, a 20-character answer,
\* the confidence, a 20-character sourceUrl and a 4-character sourcePage.
RecordLength(r) == 119 + r.question
RECURSIVE RecordsLength(_)
RecordsLength(fs) ==
  IF fs = <<>> THEN 0 ELSE RecordLength(Head(fs)) + RecordsLength(Tail(fs))
\* result.text.length
TextLength(t) ==
  (IF t.fenced THEN 12 ELSE 0)
  + (IF t.json
     THEN 11 + RecordsLength(t.faqs)
          + (IF Len(t.faqs) > 1 THEN Len(t.faqs) - 1 ELSE 0)
     ELSE 27)

\* Math.ceil(text.length / charsPerToken)
EstimateTokens(length, charsPerToken) ==
  (length + charsPerToken - 1) \div charsPerToken

\* result.text.replace(/```json\n?|\n?```/g, '').trim()
StripFence(t) == [t EXCEPT !.fenced = FALSE]
\* JSON.parse throws a SyntaxError on a text that is not JSON.
JsonParseThrows(t) == t.fenced \/ ~t.json

\* FAQSchema: the bounds of question and confidence.
FAQSchemaValid(r) ==
  /\ r.question >= MinQuestion
  /\ r.question <= MaxQuestion
  /\ r.confidence >= 0
  /\ r.confidence <= 10
\* FAQResponseSchema.parse throws a ZodError when a record is out of bounds.
SchemaThrows(t) == \E i \in 1..Len(t.faqs) : ~FAQSchemaValid(t.faqs[i])

\* What the generation backend and the parsing throw. None of these is a
\* FAQGenerationError: they have no category.
GenerateErrors ==
  { [cls |-> "Error", category |-> "none", message |-> "Request timed out"],
    [cls |-> "Error", category |-> "none", message |-> "Rate limit exceeded"] }
SyntaxError ==
  [cls |-> "SyntaxError", category |-> "none", message |-> "Unexpected token"]
ZodError ==
  [cls |-> "ZodError", category |-> "none", message |-> "too_small"]

\* The error of the inner try block, which logs it and throws it again.
ParseError(t) ==
  IF JsonParseThrows(StripFence(t)) THEN SyntaxError ELSE ZodError
ParseThrows(t) == JsonParseThrows(StripFence(t)) \/ SchemaThrows(t)

\* parsedFaqs.faqs.reduce((acc, faq) => acc + faq.confidence, 0)
\*   / parsedFaqs.faqs.length, as a fraction of tenths; 0 / 0 is NaN.
RECURSIVE ConfidenceSum(_)
ConfidenceSum(fs) ==
  IF fs = <<>> THEN 0 ELSE Head(fs).confidence + ConfidenceSum(Tail(fs))
AverageConfidence(fs) ==
  IF Len(fs) = 0 THEN [nan |-> TRUE, num |-> 0, den |-> 1]
  ELSE [nan |-> FALSE, num |-> ConfidenceSum(fs), den |-> Len(fs)]

\* return { success: true, text, stats }; the wall-clock processingTimeMs
\* is left out.
TaskSucceeded(t) ==
  [kind |-> "returned", success |-> TRUE, text |-> t,
   stats |-> [totalFaqs |-> Len(t.faqs),
              processedChunks |-> 1,
              totalTokens |-> EstimateTokens(TextLength(t), CharsPerToken),
              averageConfidence |-> AverageConfidence(t.faqs),
              model |-> "gpt-4o"]]

\* catch (error): return { success: false, error: error.message }
TaskFailedRaises(error) == [kind |-> "raised", error |-> error]
TaskFailed(error) ==
  [kind |-> "returned", success |-> FALSE, error |-> error.message]

\* No crawl and no withRetry runs while generateFAQTask is exercised.
InitFaq ==
  /\ IdleCrawl
  /\ IdleRetry
  /\ payload \in Payloads
  /\ faqPc = "generate"
  /\ response = Undefined
  /\ generated = <<>>
  /\ caught = Undefined
  /\ faqRet = NoReturn

\* await generateText(...) resolves with the text of the model.
GenerateTextOk(t) ==
  /\ faqPc = "generate"
  /\ generated' = Append(generated, [ok |-> TRUE])
  /\ response' = t
  /\ faqPc' = "parse"
  /\ UNCHANGED <<inputs, crawlVars, runs, retryVars, payload, caught, faqRet>>

\* await generateText(...) rejects: the catch block of run returns.
GenerateTextFails(e) ==
  /\ faqPc = "generate"
  /\ generated' = Append(generated, [ok |-> FALSE, error |-> e])
  /\ caught' = e
  /\ faqRet' = TaskFailed(e)
  /\ faqPc' = "done"
  /\ UNCHANGED <<inputs, crawlVars, runs, retryVars, payload, response>>

\* JSON.parse or FAQResponseSchema.parse throws: the inner catch logs and
\* throws again, and the catch block of run returns.
ParseFails ==
  /\ faqPc = "parse"
  /\ ParseThrows(response)
  /\ caught' = ParseError(response)
  /\ faqRet' = TaskFailed(ParseError(response))
  /\ faqPc' = "done"
  /\ UNCHANGED <<inputs, crawlVars, runs, retryVars, payload, response,
                 generated>>

\* The response conforms: the statistics are computed and returned.
ParseOk ==
  /\ faqPc = "parse"
  /\ ~ParseThrows(response)
  /\ faqRet' = TaskSucceeded(response)
  /\ faqPc' = "done"
  /\ UNCHANGED <<inputs, crawlVars, runs, retryVars, payload, response,
                 generated, caught>>

NextFaq ==
  \/ \E t \in Texts : GenerateTextOk(t)
  \/ \E e \in GenerateErrors : GenerateTextFails(e)
  \/ ParseFails
  \/ ParseOk

SpecFaq == InitFaq /\ [][NextFaq]_vars

\* ------------------------------------------------------------------- claims
ResultUrls == [i \in 1..Len(results) |-> results[i].url]
QueueUrls == [i \in 1..Len(queue) |-> queue[i].url]
Terminated == pc \in {"done", "failed"}
\* The entries the step appends to the back of the frontier.
Appended == SubSeq(queue', Len(queue) + 1, Len(queue'))
IsPrefix(s, t) == Len(s) <= Len(t) /\ SubSeq(t, 1, Len(s)) = s

\* C1: in every reachable state of every crawl the result list holds at most
\* maxPages pages.
C1_PagesWithinMax == Len(results) <= maxPages

\* C1 witness: a crawl returned with its page budget used up, more than one
\* page scraped and entries left in the frontier.
C1_Witness ==
  /\ pc = "done"
  /\ maxPages > 1
  /\ Len(results) = maxPages
  /\ Len(queue) > 0

\* C2: the visited set holds no URL twice and no URL occurs twice in the
\* result list.
C2_NoDuplicateUrls == NoDuplicates(visited) /\ NoDuplicates(ResultUrls)

\* C2 witness: a URL that was queued more than once has been dequeued again
\* after it was visited, and is being skipped.
C2_Witness ==
  /\ pc = "dequeued"
  /\ SetHas(visited, currentUrl)
  /\ Len(results) > 0

\* C3: every page of the results has the hostname of the seed.
C3_ResultsOnSeedHost ==
  \A i \in 1..Len(results) : Hostname(results[i].url) = Hostname(startUrl)

\* C4: a failed render or extraction leaves the results, the frontier and the
\* session as they are, the failed URL is not among the results, control
\* returns to the loop with the frontier intact, and no page is ever removed
\* from the results.
C4_PageFailureNotFatal ==
  /\ [][pc' = "catch" =>
          /\ pc \in {"goto", "extract", "progress"}
          /\ results' = results /\ queue' = queue /\ browser' = browser]_vars
  /\ [][pc = "catch" =>
          /\ pc' = "close"
          /\ results' = results /\ queue' = queue /\ browser' = browser]_vars
  /\ [][(pc = "close" /\ pc' # "failed") =>
          (pc' = "loop" /\ queue' = queue /\ results' = results)]_vars
  /\ [][IsPrefix(results, results')]_vars
  /\ [][(pc \in {"goto", "extract"} /\ pc' = "catch") =>
          ~SeqHas(ResultUrls, currentUrl)]_vars

\* C4 witness: scrapeWebsite returned a page that was scraped after a URL
\* whose render failed (visited, and not among the results).
C4_Witness ==
  /\ impl = "scrapeWebsite"
  /\ pc = "done"
  /\ \E i, j \in 1..Len(visited) :
       /\ i < j
       /\ ~SeqHas(ResultUrls, visited[i])
       /\ SeqHas(ResultUrls, visited[j])

\* C5: every crawl terminates, and it returns only with the frontier empty or
\* with maxPages pages produced.
C5_Terminates ==
  /\ <>Terminated
  /\ [](pc = "done" => (Len(queue) = 0 \/ Len(results) = maxPages))

\* C5 witness: a crawl returned because its frontier ran empty, below its page
\* budget, after a page failed (more URLs attempted than pages produced).
C5_Witness ==
  /\ pc = "done"
  /\ Len(queue) = 0
  /\ Len(results) < maxPages
  /\ Len(results) > 0
  /\ Len(visited) > Len(results)

\* C6: in scrapeWebsite the frontier is ordered by depth, no entry in it is
\* shallower than the entry dequeued last, and the depth of the dequeued
\* entries never decreases.
C6_DepthNonDecreasing ==
  /\ [](HasDepth =>
          /\ \A i, j \in 1..Len(queue) : i < j => queue[i].depth <= queue[j].depth
          /\ \A i \in 1..Len(queue) : depth <= queue[i].depth)
  /\ [][HasDepth => depth <= depth']_vars

\* C6 witness: an entry of depth 2 has been dequeued, after the entries of
\* depth 0 and 1, while another entry waits in the frontier.
C6_Witness ==
  /\ HasDepth
  /\ pc = "goto"
  /\ depth = 2
  /\ Len(queue) > 0

\* C7: no frontier entry has a hostname other than the seed's.
C7_FrontierOnSeedHost ==
  \A i \in 1..Len(queue) : Hostname(queue[i].url) = Hostname(startUrl)

\* A URL whose text ends in one of the file extensions, in any letter case.
IsFileUrl(u) ==
  /\ u.frag = ""
  /\ u.query = ""
  /\ ToLowerCase(u.ext) \in FileExtensions

\* C8: no URL ending in a known file extension, in any letter case, is in the
\* frontier, is dequeued or is rendered.
C8_NoFileLinkEnqueued ==
  /\ \A i \in 1..Len(queue) : ~IsFileUrl(queue[i].url)
  /\ ~IsFileUrl(currentUrl)
  /\ \A i \in 1..Len(visited) : ~IsFileUrl(visited[i])

\* C8 witness: scrapeWebsite has processed the links of a page that links to a
\* same-site file URL with an upper-case extension.
C8_Witness ==
  /\ impl = "scrapeWebsite"
  /\ pc = "close"
  /\ \E i \in 1..Len(links) :
       /\ ~ResolveThrows(links[i])
       /\ IsFileUrl(Resolve(links[i], currentUrl))
       /\ links[i].ext = "PDF"
       /\ Hostname(Resolve(links[i], currentUrl)) = Hostname(startUrl)

StripFragment(u) == [u EXCEPT !.frag = ""]
Count(s, x) == Cardinality({i \in 1..Len(s) : s[i] = x})
\* A link of the page that carries a fragment and is otherwise eligible.
FragmentLink(l) ==
  /\ ~ResolveThrows(l)
  /\ l.frag # ""
  /\ Hostname(Resolve(l, currentUrl)) = Hostname(startUrl)
  /\ ~IsFileUrl(StripFragment(Resolve(l, currentUrl)))
  /\ ~SetHas(visited, StripFragment(Resolve(l, currentUrl)))

\* C9 as claimed: when the links of a page are queued, the fragment-free URL
\* of every same-site link carrying a fragment is appended exactly once.
C9_FragmentNormalizedOnce ==
  [][(pc = "links" /\ pc' # "links") =>
       \A i \in 1..Len(links) :
         FragmentLink(links[i]) =>
           Count([k \in 1..Len(Appended) |-> Appended[k].url],
                 StripFragment(Resolve(links[i], currentUrl))) = 1]_vars

\* C9 amended: a link carrying a fragment is skipped, not normalised: every
\* entry appended for a page is the resolution of a link of that page that
\* carries no fragment, so no entry is appended on account of a fragment link.
C9_FragmentLinksSkipped ==
  [][(pc = "links" /\ pc' # "links") =>
       \A k \in 1..Len(Appended) :
         /\ Appended[k].url.frag = ""
         /\ \E i \in 1..Len(links) :
              /\ links[i].frag = ""
              /\ ~ResolveThrows(links[i])
              /\ Resolve(links[i], currentUrl) = Appended[k].url]_vars

\* C9 witness: scrapeWebsite has processed a page that links to one same-site
\* URL with two different fragments, and that URL is not in the frontier.
C9_Witness ==
  /\ impl = "scrapeWebsite"
  /\ pc = "close"
  /\ \E i, j \in 1..Len(links) :
       /\ FragmentLink(links[i])
       /\ FragmentLink(links[j])
       /\ links[i].frag # links[j].frag
       /\ StripFragment(Resolve(links[i], currentUrl))
            = StripFragment(Resolve(links[j], currentUrl))
       /\ ~SeqHas(QueueUrls, StripFragment(Resolve(links[i], currentUrl)))

\* The frontier entries whose URL is not in the visited set.
Unvisited == {i \in 1..Len(queue) : ~SetHas(visited, queue[i].url)}

\* C10: with ten distinct same-site links on the seed page, maxPages = 3 and
\* every page rendering, the crawl returns exactly 3 pages and at least 7
\* unvisited entries are left in the frontier.
C10_ThreeOfTen ==
  pc = "done" => (Len(results) = 3 /\ Cardinality(Unvisited) >= 7)

\* C10 witness: the crawl returned with exactly 7 unvisited entries left (one
\* of the ten links was the seed itself).
C10_Witness ==
  /\ pc = "done"
  /\ Len(results) = 3
  /\ Cardinality(Unvisited) = 7

\* C11: a session that was acquired is closed exactly once when the crawl has
\* returned or raised, on every exit path; browser.close is never called
\* twice; nothing runs after the close; and a page is rendered, read or
\* queued only while the session is open.
C11_BrowserClosedOnce ==
  /\ closes <= 1
  /\ (browser = "none") => (closes = 0)
  /\ (Terminated /\ browser # "none") => (browser = "closed" /\ closes = 1)
  /\ (browser = "closed") => Terminated
  /\ (pc \in {"loop", "dequeued", "goto", "extract", "progress", "links",
              "catch", "close"}) => (browser = "open" /\ closes = 0)

\* C11 witness: scrapeWebsite raised on a fatal error inside its loop, after
\* a page was scraped, with its session closed once.
C11_Witness ==
  /\ impl = "scrapeWebsite"
  /\ pc = "failed"
  /\ ret.kind = "raised"
  /\ Len(results) > 0
  /\ browser = "closed"
  /\ closes = 1

\* C12: when scrapeWebsiteTask cannot acquire its session it returns
\* {success: false, error} and raises nothing, no page was rendered and no
\* session is left; without siteOwner and without the credential it always
\* ends so; with siteOwner the missing credential is never the error.
C12_AcquireFailureReported ==
  impl = "scrapeWebsiteTask" =>
    /\ ret.kind # "raised"
    /\ (pc = "failed" /\ browser = "none") =>
         /\ ret.kind = "returned"
         /\ ret.success = FALSE
         /\ ret.error \in {MissingKeyMessage, ConnectMessage}
         /\ visited = <<>>
         /\ results = <<>>
         /\ closes = 0
    /\ (~siteOwner /\ ~apiKey /\ pc # "init") =>
         /\ pc = "failed"
         /\ browser = "none"
         /\ ret.error = MissingKeyMessage
    /\ (siteOwner /\ pc = "failed") => (ret.error # MissingKeyMessage)

\* C12 witness: the task, started for a site that is not owned and without
\* the credential, has returned its failure.
C12_Witness ==
  /\ impl = "scrapeWebsiteTask"
  /\ ~siteOwner
  /\ ~apiKey
  /\ pc = "failed"
  /\ ret.kind = "returned"

\* C13: when scrapeWebsiteTask completes with zero pages it returns
\* success: true, an empty page list, and the stats totalPages = 0,
\* totalContent = 0 and averageContentLength = 0, each a defined number.
C13_ZeroPagesStats ==
  (impl = "scrapeWebsiteTask" /\ pc = "done" /\ results = <<>>) =>
    /\ ret.success = TRUE
    /\ ret.pages = <<>>
    /\ ret.stats = [totalPages |-> Num(0),
                    totalContent |-> Num(0),
                    averageContentLength |-> Num(0)]

\* onProgress has not yet been called for the page pushed last.
ProgressPending == pc = "progress" \/ (impl = "scrapeWebsiteLocally" /\ pc = "links")

\* C14: in scrapeWebsite and scrapeWebsiteLocally onProgress has been called
\* once for every page of the results (but for the page just pushed), with
\* the arguments 1, 2, ..., n in order; every call happens after the push of
\* the current URL's page, with the number of results as argument, and
\* changes no result.
C14_ProgressOncePerPage ==
  /\ [](impl \in {"scrapeWebsite", "scrapeWebsiteLocally"} =>
          /\ progress = [i \in 1..Len(progress) |-> i]
          /\ Len(progress) = IF ProgressPending THEN Len(results) - 1
                                                ELSE Len(results))
  /\ [](impl = "scrapeWebsiteTask" => progress = <<>>)
  /\ [][progress' # progress =>
          /\ pc = "progress"
          /\ results # <<>>
          /\ results[Len(results)].url = currentUrl
          /\ progress' = Append(progress, Len(results))
          /\ results' = results]_vars

\* C14 witness: scrapeWebsite returned two pages after a third URL failed to
\* render, and onProgress was called with 1 and with 2.
C14_Witness ==
  /\ impl = "scrapeWebsite"
  /\ pc = "done"
  /\ progress = <<1, 2>>
  /\ Len(results) = 2
  /\ Len(visited) = 3

\* The place of a URL in a sequence without duplicates.
Pos(s, x) == CHOOSE i \in 1..Len(s) : s[i] = x

ToSet(s) == {s[i] : i \in 1..Len(s)}

CallsAt == {i \in 1..Len(log) : log[i].ev = "call"}
SleepsAt == {i \in 1..Len(log) : log[i].ev = "sleep"}
\* The invocation at place i of the log failed with a retryable category.
FailedAt(i, categories) ==
  /\ i \in CallsAt
  /\ ~log[i].ok
  /\ log[i].error.category \in categories

\* C17: withRetry invokes the operation at most maxAttempts times; when an
\* invocation succeeds withRetry has returned the value of that invocation,
\* which is the last entry of the log: no invocation and no sleep follows it.
C17_AtMostMaxAttempts ==
  /\ Cardinality(CallsAt) <= maxAttempts
  /\ \A i \in CallsAt :
       log[i].ok =>
         /\ i = Len(log)
         /\ retryPc = "done"
         /\ retryRet = [kind |-> "returned", value |-> log[i].at]
  /\ (retryRet.kind = "returned") => (log # <<>> /\ log[Len(log)].ev = "call"
                                      /\ log[Len(log)].ok)

\* C17 witness: with the default of three attempts, the second invocation
\* succeeded after one failure and one sleep, and withRetry has returned.
C17_Witness ==
  /\ maxAttempts = DefaultMaxAttempts
  /\ retryPc = "done"
  /\ Len(log) = 3
  /\ retryRet = [kind |-> "returned", value |-> 2]

\* The first invocation failed with a FAQGenerationError or DatabaseError of
\* category PERMANENT.
FirstFailedPermanent ==
  /\ log # <<>>
  /\ ~log[1].ok
  /\ log[1].error.cls \in {"FAQGenerationError", "DatabaseError"}
  /\ log[1].error.category = "permanent"

\* C18: when the first invocation fails with a permanent error, withRetry
\* has raised that very error, the operation was invoked once and nothing
\* was slept.
C18_PermanentNotRetried ==
  FirstFailedPermanent =>
    /\ Len(log) = 1
    /\ retryPc = "done"
    /\ retryRet = [kind |-> "raised", error |-> log[1].error]
    /\ log[1].error.at = 1

\* C18 witness: a DatabaseError of category PERMANENT was thrown by the first
\* of three allowed attempts.
C18_Witness ==
  /\ maxAttempts = DefaultMaxAttempts
  /\ FirstFailedPermanent
  /\ log[1].error.cls = "DatabaseError"
  /\ retryRet.kind = "raised"

\* C19: when the first invocation fails with an error of category
\* VALIDATION, the operation is invoked once and nothing is slept, whatever
\* maxAttempts is: withRetry is leaving with that error, or has raised it.
C19_ValidationNotRetried ==
  (log # <<>> /\ ~log[1].ok /\ log[1].error.category = "validation") =>
    /\ Len(log) = 1
    /\ retryPc \in {"break", "done"}
    /\ retryPc = "done" => retryRet = [kind |-> "raised", error |-> log[1].error]

\* The operation failed twice with transient or unclassified errors and
\* succeeded on attempt 3, with maxAttempts = 3.
TwoFailuresThenSuccess ==
  /\ maxAttempts = 3
  /\ Len(log) = 5
  /\ FailedAt(1, {"transient", "none"})
  /\ FailedAt(3, {"transient", "none"})
  /\ 5 \in CallsAt /\ log[5].ok

\* C20: after two transient failures and a success on attempt 3 withRetry
\* has returned the value of the third invocation after exactly two sleeps;
\* and the delay of every sleep less its jitter is delayMs * 2^(k-1) for the
\* sleep after attempt k, which grows strictly from one sleep to the next.
C20_BackoffGrows ==
  /\ TwoFailuresThenSuccess =>
       /\ retryRet = [kind |-> "returned", value |-> 3]
       /\ SleepsAt = {2, 4}
       /\ log[2].delay - log[2].jitter < log[4].delay - log[4].jitter
  /\ \A i \in SleepsAt :
       log[i].delay - log[i].jitter = delayMs * 2 ^ (log[i].at - 1)
  /\ \A i, j \in SleepsAt :
       i < j =>
         /\ log[i].at < log[j].at
         /\ log[i].delay - log[i].jitter < log[j].delay - log[j].jitter

\* C20 witness: with the default delay, an unclassified and a transient
\* failure were followed by a success on attempt 3.
C20_Witness ==
  /\ TwoFailuresThenSuccess
  /\ delayMs = DefaultDelayMs
  /\ log[1].error.cls = "Error"
  /\ log[3].error.category = "transient"
  /\ retryPc = "done"

\* Every invocation the loop allows was made, and each failed with an error
\* the catch block does not rethrow.
AllAttemptsFailed ==
  /\ maxAttempts >= 1
  /\ Cardinality(CallsAt) = maxAttempts
  /\ \A i \in CallsAt : ~log[i].ok /\ ~Rethrown(log[i].error)

\* C21: when every one of the maxAttempts >= 1 invocations has failed with a
\* retryable error, withRetry does not return a value: it is about to throw,
\* or has thrown, and what it throws is the error of the last invocation,
\* the one made on attempt maxAttempts.
C21_LastFailureRaised ==
  AllAttemptsFailed =>
    /\ retryRet.kind # "returned"
    /\ lastError = log[Len(log)].error
    /\ lastError.at = maxAttempts
    /\ retryPc \in {"break", "done"}
    /\ retryPc = "done" => retryRet = [kind |-> "raised", error |-> log[Len(log)].error]

\* C21 witness: three attempts failed with three different errors, a
\* transient one last, and withRetry has thrown.
C21_Witness ==
  /\ AllAttemptsFailed
  /\ maxAttempts = DefaultMaxAttempts
  /\ log[1].error.cls = "Error"
  /\ log[3].error.category = "validation"
  /\ log[5].error.category = "transient"
  /\ retryPc = "done"

\* An invocation was cancelled: it failed with an AbortError.
CancelledAt == {i \in CallsAt : ~log[i].ok /\ log[i].error.cls = "AbortError"}

\* C29: a cancelled invocation is the last entry of the log: no sleep and no
\* further invocation follows it, none is pending, and withRetry is leaving
\* with the error of the cancellation, or has raised it.
C29_CancellationNotRetried ==
  \A i \in CancelledAt :
    /\ i = Len(log)
    /\ retryPc \in {"break", "done"}
    /\ retryPc = "done" => retryRet = [kind |-> "raised", error |-> log[i].error]

\* C23: the navigation to a dequeued URL is retried when it fails. Every
\* navigation of a crawl is a first attempt (StartPage alone begins one), so
\* the step that follows its failure is a new attempt at the same URL, and
\* not the catch block that gives the page up.
C23_NavigationRetried ==
  [][(pc = "goto" /\ pc' # "extract") =>
       (pc' = "goto" /\ currentUrl' = currentUrl)]_vars

\* C28: in scrapeWebsiteLocally no link is appended to the frontier whose
\* path starts with none of a non-empty pathPrefixes or contains an entry
\* of excludePaths.
C28_PathRulesAtEnqueue ==
  [][(impl = "scrapeWebsiteLocally" /\ pc = "links") =>
       \A i \in 1..Len(Appended) :
         ~PathSkipped(Appended[i].url, pathPrefixes, excludePaths)]_vars

\* C30: the step that starts the rendering of a dequeued URL leaves the URL
\* in the visited set, in every crawl.
C30_VisitedBeforeRender ==
  [][(pc = "dequeued" /\ pc' = "goto") => SetHas(visited', currentUrl)]_vars

\* The records of a conforming response with at least the confidence min.
RECURSIVE AtLeast(_, _)
AtLeast(fs, min) ==
  IF fs = <<>> THEN <<>>
  ELSE (IF Head(fs).confidence >= min THEN <<Head(fs)>> ELSE <<>>)
       \o AtLeast(Tail(fs), min)

FaqSucceeded == faqRet.kind = "returned" /\ faqRet.success
FirstGenerationFailed == generated # <<>> /\ ~generated[1].ok

\* C22: the text generation of generateFAQTask is retried. A task that has
\* returned after its first generateText call failed (a timeout, a rate
\* limit) has either called generateText again and succeeded, or has used
\* up the attempts of the retry.
C22_GenerationRetried ==
  (faqPc = "done" /\ FirstGenerationFailed) =>
    \/ Len(generated) > 1 /\ FaqSucceeded
    \/ Len(generated) = DefaultMaxAttempts

\* C24: on success the records generateFAQTask counts as accepted are those
\* of the response whose confidence is at least options.minConfidence.
C24_AcceptedAboveMinConfidence ==
  FaqSucceeded =>
    faqRet.stats.totalFaqs =
      Len(AtLeast(response.faqs, payload.options.minConfidence))

\* C25: when the response holds a record outside the bounds of FAQSchema,
\* generateFAQTask returns success: false with an error of category
\* validation, without text or statistics of the response, after exactly
\* one call of generateText.
C25_SchemaViolationFails ==
  (faqPc = "done" /\ response # Undefined /\ response.json
     /\ SchemaThrows(response)) =>
    /\ faqRet.kind = "returned"
    /\ ~faqRet.success
    /\ DOMAIN faqRet = {"kind", "success", "error"}
    /\ Len(generated) = 1
    /\ caught.category = "validation"

\* generateText, JSON.parse or the schema validation has failed.
FaqFailure ==
  \/ generated # <<>> /\ ~generated[Len(generated)].ok
  \/ response # Undefined /\ ParseThrows(response)

\* C26: generateFAQTask.run never raises: when it is done it has returned,
\* and after a failure of text generation, JSON parsing or schema validation
\* what it returned is {success: false, error} with the message of the error
\* and nothing else: no faqs, no text, no stats.
C26_FailureReturned ==
  /\ faqRet.kind # "raised"
  /\ faqPc = "done" => faqRet.kind = "returned"
  /\ (faqPc = "done" /\ FaqFailure) =>
       /\ caught # Undefined
       /\ faqRet = [kind |-> "returned", success |-> FALSE,
                    error |-> caught.message]

\* C26 witness: a response in a fence whose second record has a question of
\* 5 characters failed the schema, and run has returned the failure.
C26_Witness ==
  /\ faqPc = "done"
  /\ response # Undefined
  /\ response.fenced
  /\ Len(response.faqs) = 2
  /\ FAQSchemaValid(response.faqs[1])
  /\ response.faqs[2].question = 5
  /\ caught = ZodError
  /\ ~faqRet.success

\* C27: on success stats.totalTokens is the estimate of the input: the
\* length of the combined content of the pages over CharsPerToken.
C27_TokensOfInput ==
  FaqSucceeded =>
    faqRet.stats.totalTokens =
      EstimateTokens(CombinedLength(payload.pages), CharsPerToken)

\* C31: the category passed to withRetry decides: when it is PERMANENT or
\* VALIDATION a failed first invocation is the only one, whatever it threw;
\* nothing is slept and withRetry is leaving with the error or has raised it.
C31_CategoryArgumentDecides ==
  (errorCategory \in {"permanent", "validation"} /\ log # <<>> /\ ~log[1].ok) =>
    /\ Len(log) = 1
    /\ retryPc \in {"break", "done"}
    /\ retryPc = "done" => retryRet = [kind |-> "raised", error |-> log[1].error]

\* C39: every sleep of withRetry follows the failed invocation of its
\* attempt, which is not the last one allowed, and is followed by the
\* invocation of the next attempt (made, or due at the head of the loop);
\* and when all maxAttempts invocations have failed there were exactly
\* maxAttempts - 1 sleeps, the log ends with the last invocation, and
\* withRetry is raising.
C39_NoSleepAfterLastAttempt ==
  /\ \A i \in SleepsAt :
       /\ log[i].at < maxAttempts
       /\ i > 1
       /\ (i - 1) \in CallsAt /\ ~log[i - 1].ok /\ log[i - 1].at = log[i].at
       /\ IF i < Len(log)
          THEN (i + 1) \in CallsAt /\ log[i + 1].at = log[i].at + 1
          ELSE retryPc = "loop" /\ attempt = log[i].at + 1
  /\ AllAttemptsFailed =>
       /\ Cardinality(SleepsAt) = maxAttempts - 1
       /\ Len(log) \in CallsAt
       /\ retryPc \in {"break", "done"}

\* C39 witness: three invocations failed, two sleeps lie between them, and
\* withRetry has raised.
C39_Witness ==
  /\ AllAttemptsFailed
  /\ maxAttempts = 3
  /\ SleepsAt = {2, 4}
  /\ CallsAt = {1, 3, 5}
  /\ retryRet.kind = "raised"

\* C35: on success stats.averageConfidence is a number, not NaN, between 0
\* and 1 (0 and 10 tenths), and is the mean of the confidences of the
\* records the task counts, also when the response holds no record.
C35_AverageConfidenceDefined ==
  FaqSucceeded =>
    LET avg == faqRet.stats.averageConfidence
    IN /\ ~avg.nan
       /\ avg.den > 0
       /\ avg.num >= 0
       /\ avg.num <= 10 * avg.den
       /\ avg.num * Len(response.faqs) = ConfidenceSum(response.faqs) * avg.den

\* C33: no step of a crawl removes a URL from the visited set, and no step
\* appends to the frontier a URL that is in the visited set.
C33_VisitedMonotonic ==
  [][/\ IsPrefix(visited, visited')
     /\ \A i \in 1..Len(Appended) : ~SeqHas(visited', Appended[i].url)]_vars

\* C33 witness: scrapeWebsite has read a second page with a same-site link
\* to a visited URL, has run its link loop, and that URL is not in the
\* frontier.
C33_Witness ==
  /\ impl = "scrapeWebsite"
  /\ pc = "close"
  /\ Len(visited) = 2
  /\ \E i \in 1..Len(links) :
       /\ ~ResolveThrows(links[i])
       /\ ~IncludesHash(Resolve(links[i], currentUrl))
       /\ SeqHas(visited, Resolve(links[i], currentUrl))
       /\ ~SeqHas(QueueUrls, Resolve(links[i], currentUrl))

\* C34: in scrapeWebsite the step that follows the push of a page to the
\* results and the call of onProgress is the link loop, with the links of
\* the page, and the link loop appends the accepted links to the back of
\* the frontier: no page of the results is left without its link loop.
C34_LinksEnqueuedAfterProgress ==
  [][(impl = "scrapeWebsite" /\ pc = "progress") =>
       (pc' = "links" /\ links' = links /\ queue' = queue)]_vars

\* C36: every URL of the results is in the visited set, and the results are
\* no more than the visited URLs.
C36_ResultsAreVisited ==
  /\ \A i \in 1..Len(results) : SeqHas(visited, results[i].url)
  /\ Len(results) <= Len(visited)

\* C36 witness: scrapeWebsite has two results and three visited URLs, one
\* of which failed to render.
C36_Witness ==
  /\ impl = "scrapeWebsite"
  /\ Len(results) = 2
  /\ Len(visited) = 3

\* The path of a URL is outside the scope of the local crawl: it starts with
\* none of the prefixes, of which there is one at least, or it contains an
\* excluded text.
OutOfScope(u) ==
  \/ pathPrefixes # <<>>
       /\ \A i \in 1..Len(pathPrefixes) : ~TextStartsWith(u.path, pathPrefixes[i])
  \/ \E i \in 1..Len(excludePaths) : TextIncludes(u.path, excludePaths[i])

\* C37: in scrapeWebsiteLocally no page of the results fails the path rules,
\* and the step that follows the dequeue of an unvisited URL that fails them
\* returns to the head of the loop with the visited set and the results as
\* they were: the URL is not rendered.
C37_PathRulesAtDequeue ==
  [][impl = "scrapeWebsiteLocally" =>
       /\ \A i \in 1..Len(results') :
            ~OutOfScope(results'[i].url)
       /\ (/\ pc = "dequeued"
           /\ ~SeqHas(visited, currentUrl)
           /\ OutOfScope(currentUrl)) =>
            (pc' = "loop" /\ visited' = visited /\ results' = results)]_vars

\* C37 witness: the seed was emitted, and a link to a URL that excludePaths
\* rejects was dequeued and skipped: the URL is not visited and the page
\* budget is as it was.
C37_Witness ==
  /\ impl = "scrapeWebsiteLocally"
  /\ pc = "loop"
  /\ OutOfScope(currentUrl)
  /\ ~SeqHas(visited, currentUrl)
  /\ Len(results) = 1
  /\ results[1].url = startUrl

LinkTargets(u) ==
  IF site[u].kind # "ok" THEN {}
  ELSE {Resolve(site[u].doc[i], u) : i \in 1..Len(site[u].doc)}

RECURSIVE Within(_)
\* The URLs within k link hops of the seed.
Within(k) ==
  IF k = 0 THEN {startUrl}
  ELSE Within(k - 1) \cup UNION {LinkTargets(u) : u \in Within(k - 1)}

\* The BFS distance of a URL that some path of links reaches.
Distance(u) == CHOOSE k \in 0..Cardinality(DOMAIN site) : 
                 /\ u \in Within(k)
                 /\ \A j \in 0..(k - 1) : u \notin Within(j)

\* C32: while scrapeWebsite processes a URL, the depth of its frontier
\* entry is the BFS distance of the URL from the seed over the links of
\* the pages of the site that can be scraped.
C32_DepthIsBfsDistance ==
  (impl = "scrapeWebsite" /\ pc = "goto") => depth = Distance(currentUrl)

====
